---------------------------- MODULE Spec2Model ----------------------------
(***************************************************************************)
(* RepoRAG-MCP: the incremental build tracker (incrementalBuilder.py),     *)
(* the chunk repository writer (codeChunker.py) and the pipeline           *)
(* orchestrator (localRepoProcess.py, codeCurator.py).                     *)
(***************************************************************************)
EXTENDS Integers, Sequences, FiniteSets, TLC

(***************************************************************************)
(* Bounds of the model.                                                    *)
(***************************************************************************)
\* modification times are 1..MaxTime
MaxTime == 2
\* a curated file holds at most MaxDecls declarations
MaxDecls == 3
\* the repository is written at most MaxEdits times while cycles run
MaxEdits == 1
\* a syntax tree holds at most MaxNodes declarations
MaxNodes == 3
\* a node holds at most MaxTokens identifier captures
MaxTokens == 4
\* a query returns at most MaxCaptures captures
MaxCaptures == 3

\* the longest method name and keyword of the hook analysis, in characters
MaxChars == 2

(***************************************************************************)
(* Paths.                                                                  *)
(***************************************************************************)
\* IncrementalBuilder.repo_path (absolute)
RepoPath == "/repo"

\* the relative paths of the files that may exist under the repository
Paths == {"Foo.java", "util.ts"}

\* os.path.join(self.repo_path, rel_path)
Join(repo, rel) == repo \o "/" \o rel

\* os.path.relpath(abs_path, self.repo_path); a path that is not under the
\* repository is reached through the parent directory
RelPath(abs, repo) ==
    IF Len(abs) > Len(repo) + 1 /\ SubSeq(abs, 1, Len(repo) + 1) = repo \o "/"
    THEN SubSeq(abs, Len(repo) + 2, Len(abs))
    ELSE ".." \o abs

(***************************************************************************)
(* Files of the repository on disk.                                        *)
(***************************************************************************)
\* the byte contents a file may have
Contents == {"v1", "v2"}

\* no file at the path
NoFile == [exists |-> FALSE, readable |-> FALSE, mtime |-> 0, content |-> ""]

\* a file that exists and cannot be read (permissions, or removed between
\* the listing and the read)
Unreadable ==
    [exists |-> TRUE, readable |-> FALSE, mtime |-> 0, content |-> ""]

FileStates ==
    [exists : {TRUE}, readable : {TRUE}, mtime : 1..MaxTime,
     content : Contents] \cup {Unreadable}

\* hashlib.md5 over the bytes of the file, taken as injective on the content
_calculate_file_hash(content) == <<"md5", content>>

\* IncrementalBuilder._get_file_info; shape "raise" stands for the exception
\* of os.path.getmtime / open on a missing or unreadable file
_get_file_info(f) ==
    IF f.exists /\ f.readable
    THEN [shape |-> "pair", mtime |-> f.mtime,
          hash |-> _calculate_file_hash(f.content)]
    ELSE [shape |-> "raise", mtime |-> 0, hash |-> << >>]

(***************************************************************************)
(* The persisted BuildCache (<repo>_file_state.json).                      *)
(*   kind "absent"  : no cache file                                        *)
(*   kind "invalid" : the file is not parsable as JSON                     *)
(*   kind "json"    : a JSON value.  haskey: it is an object with a        *)
(*       'files' key.  isdict: the value taken for the files is a mapping, *)
(*       and files is that mapping, absolute path -> entry.  delshape is   *)
(*       the shape of the 'deleted_files' value and deleted the set of     *)
(*       strings set() draws from it: the elements of a "list", the        *)
(*       characters of a "text"; set() raises on a "number".               *)
(* An entry has a shape: "pair" is the list [mtime, hash]; "short" a list  *)
(* of one element; "text" a string of two characters (tuple() makes a pair *)
(* of strings of it); "number" a JSON number (tuple() raises).             *)
(***************************************************************************)
EmptyCache == [files |-> << >>, deleted |-> {}]

\* IncrementalBuilder._load_cache
_load_cache(cf) ==
    IF cf.kind # "json" THEN EmptyCache
    ELSE IF ~cf.isdict THEN EmptyCache
    ELSE IF \E k \in DOMAIN cf.files : cf.files[k].shape = "number"
    THEN EmptyCache
    ELSE IF cf.haskey /\ cf.delshape = "number" THEN EmptyCache
    ELSE [files |->
             [r \in {RelPath(k, RepoPath) : k \in DOMAIN cf.files} |->
                 cf.files[CHOOSE k \in DOMAIN cf.files :
                             RelPath(k, RepoPath) = r]],
          deleted |-> IF cf.haskey THEN cf.deleted ELSE {}]

\* the document _save_cache dumps
CacheDocument(cache) ==
    [kind |-> "json", haskey |-> TRUE, isdict |-> TRUE,
     files |-> [k \in {Join(RepoPath, r) : r \in DOMAIN cache.files} |->
                  cache.files[RelPath(k, RepoPath)]],
     delshape |-> "list", deleted |-> cache.deleted]

\* IncrementalBuilder._save_cache; outcome "ok" writes the document, "denied"
\* is open() failing (the file is untouched), "torn" is a write failing after
\* open() truncated the file; both failures are swallowed with a warning
_save_cache(cache, old, outcome) ==
    CASE outcome = "ok"     -> CacheDocument(cache)
      [] outcome = "denied" -> old
      [] outcome = "torn"   -> [kind |-> "invalid"]

SaveOutcomes == {"ok", "denied", "torn"}

(***************************************************************************)
(* The curated directory and the language extractors.                      *)
(***************************************************************************)
\* CodeChunker.input_dir, artifacts/curated/<repo name>
CuratedDir == "artifacts/curated/repo"

\* CodeChunker.repo_name
RepoName == "repo"

\* the path of the curated file of a source file (CodeCurator.process_file)
CuratedFile(rel) == CuratedDir \o "/" \o rel \o ".md"

\* the order in which os.walk lists the files of the curated directory
WalkOrder == <<"Foo.java", "util.ts">>

\* the keys of CodeChunker.chunkers
Chunkers == {"py", "python", "js", "javascript", "java", "kt", "kotlin", "objc"}

NoCurated == [exists |-> FALSE, readable |-> FALSE, language |-> "", code |-> 0]

\* a curated file that cannot be opened
UnreadableMd ==
    [exists |-> TRUE, readable |-> FALSE, language |-> "", code |-> 0]

\* code n >= 0 is a source with n declarations; on code Crash the extractor
\* raises
Crash == 0 - 1

\* the curated files: a header language and a fenced code block
CuratedStates ==
    {UnreadableMd}
    \cup [exists : {TRUE}, readable : {TRUE}, language : {"java"},
          code : Crash..MaxDecls]
    \cup {[exists |-> TRUE, readable |-> TRUE, language |-> "typescript",
           code |-> 1]}

None == << >>
Some(x) == <<x>>

\* the i-th (chunk_text, chunk_meta) pair an extractor returns: a class, a
\* pair whose text is blank, then methods; refs are the identifiers in the
\* order the set met them
Declaration(i) ==
    CASE i = 1 -> [text |-> "class Foo { void bar() {} }", chunk_type |-> "class",
                   name |-> "Foo", parent |-> None, start_line |-> 1,
                   end_line |-> 1, refs |-> <<"Foo", "bar">>]
      [] i = 2 -> [text |-> " ", chunk_type |-> "method", name |-> "",
                   parent |-> None, start_line |-> 1, end_line |-> 1,
                   refs |-> << >>]
      [] i = 3 -> [text |-> "void bar() {}", chunk_type |-> "method",
                   name |-> "bar", parent |-> Some("Foo"), start_line |-> 1,
                   end_line |-> 1, refs |-> <<"bar">>]
      [] OTHER -> [text |-> "void baz() { bar(); }", chunk_type |-> "method",
                   name |-> "baz", parent |-> Some("Foo"), start_line |-> 2,
                   end_line |-> 2, refs |-> <<"baz", "bar">>]

\* chunk_text.strip() is empty
IsBlank(text) == text = "" \/ text = " "

Reverse(q) == [i \in 1..Len(q) |-> q[Len(q) + 1 - i]]

\* the string hash seeds of a Python process
Seeds == {1, 2}

\* list(references): the iteration order of a set of strings depends on the
\* string hash seed of the process
ListOfSet(q, seed) == IF seed = 1 THEN q ELSE Reverse(q)

\* CodeChunker.chunk_code_by_language: "raise" for a language without an
\* extractor (ValueError) and for an exception inside the extractor
chunk_code_by_language(code, language, seed) ==
    IF language \notin Chunkers THEN [raise |-> TRUE, chunks |-> << >>]
    ELSE IF code = Crash THEN [raise |-> TRUE, chunks |-> << >>]
    ELSE [raise |-> FALSE,
          chunks |-> [i \in 1..code |->
                        [Declaration(i) EXCEPT
                            !.refs = ListOfSet(Declaration(i).refs, seed)]]]

\* the header filename CodeCurator.process_file writes: os.path.basename
HeaderFilename(rel) == rel

(***************************************************************************)
(* CodeCurator.                                                            *)
(***************************************************************************)
\* os.path.splitext(path)[1]: from the last dot on
RECURSIVE LastDot(_, _)
LastDot(str, i) ==
    IF i = 0 THEN 0
    ELSE IF SubSeq(str, i, i) = "." THEN i ELSE LastDot(str, i - 1)

SplitExt(str) ==
    LET k == LastDot(str, Len(str))
    IN  IF k <= 1 THEN "" ELSE SubSeq(str, k, Len(str))

\* CodeCurator.code_extensions
CuratorExtensions ==
    {".py", ".js", ".jsx", ".ts", ".tsx", ".java", ".c", ".cpp", ".h", ".hpp",
     ".cs", ".go", ".rb", ".php", ".rs", ".swift", ".kt", ".scala", ".sh",
     ".bash", ".sql", ".r", ".html", ".css", ".sass", ".scss", ".yaml",
     ".yml", ".json", ".xml", ".toml", ".ini", ".conf"}

\* CodeCurator.should_ignore for a file in the root of the repository whose
\* name meets no ignore pattern: hidden files and foreign extensions
should_ignore(rel) ==
    \/ SubSeq(rel, 1, 1) = "."
    \/ SplitExt(rel) \notin CuratorExtensions

\* CodeCurator.estimate_language
estimate_language(rel) ==
    LET ext == SplitExt(rel)
    IN  CASE ext = ".py" -> "python"
          [] ext \in {".js", ".jsx"} -> "javascript"
          [] ext \in {".ts", ".tsx"} -> "typescript"
          [] ext = ".java" -> "java"
          [] ext = ".kt" -> "kotlin"
          [] OTHER -> "unknown"

\* the declarations in a source text: "v1" declares a class, "v2" a class
\* and its methods
DeclarationsIn(content) == IF content = "v1" THEN 1 ELSE MaxDecls

\* CodeCurator.process_file: the .md file written for a source file, or the
\* file left as it was when the source is ignored or cannot be read
CuratorProcessFile(rel, f, old) ==
    IF should_ignore(rel) \/ ~f.readable THEN old
    ELSE [exists |-> TRUE, readable |-> TRUE,
          language |-> estimate_language(rel),
          code |-> DeclarationsIn(f.content)]

\* CodeCurator.process_directory: the files of the list that exist, or with
\* no list every file of the repository; nothing is removed
CuratorProcessDirectory(dir, d, specific_files) ==
    [rel \in Paths |->
        IF d[rel].exists
           /\ (specific_files = {} \/ Join(RepoPath, rel) \in specific_files)
        THEN CuratorProcessFile(rel, d[rel], dir[rel])
        ELSE dir[rel]]

(***************************************************************************)
(* CodeChunker.                                                            *)
(***************************************************************************)
\* hashlib.md5(...).hexdigest(), taken as injective on the string
Md5(str) == <<"md5", str>>

\* _generate_uid leaving the chunk_id out of the digest
_generate_uid_of_path(file_path, chunk_id) == Md5(file_path)

\* CodeChunker._generate_uid
_generate_uid(file_path, chunk_id) == Md5(file_path \o ":" \o chunk_id)

\* the chunk_id of process_file; i is the index enumerate() gives
ChunkId(filename, chunk_type, i) ==
    filename \o ":" \o chunk_type \o ":" \o ToString(i)

\* the chunk_data of process_file
ChunkData(file_path, rel, md, i, pair) ==
    [id |-> _generate_uid(file_path,
                          ChunkId(HeaderFilename(rel), pair.chunk_type, i)),
     text |-> pair.text,
     source |-> file_path,
     filename |-> HeaderFilename(rel),
     filepath |-> rel,
     language |-> md.language,
     repository |-> RepoName,
     chunk_index |-> i,
     type |-> pair.chunk_type,
     code_type |-> pair.chunk_type,
     name |-> pair.name,
     parent |-> pair.parent,
     dependencies |-> << >>,
     methods |-> << >>,
     start_line |-> pair.start_line,
     end_line |-> pair.end_line,
     imports |-> << >>,
     references |-> pair.refs]

\* process_file letting the exception of a failing file out: the batch ends
\* with nothing
process_file_uncaught(rel, md, seed) ==
    LET got == chunk_code_by_language(md.code, md.language, seed)
        all == [i \in 1..Len(got.chunks) |->
                   ChunkData(CuratedFile(rel), rel, md, i - 1, got.chunks[i])]
    IN  IF ~md.readable \/ got.raise THEN [raise |-> TRUE, result |-> << >>]
        ELSE [raise |-> FALSE,
              result |-> SelectSeq(all, LAMBDA c : ~IsBlank(c.text))]

\* CodeChunker.process_file: every exception is caught and the file gives
\* no chunk
process_file(rel, md, seed) ==
    LET got == chunk_code_by_language(md.code, md.language, seed)
        all == [i \in 1..Len(got.chunks) |->
                   ChunkData(CuratedFile(rel), rel, md, i - 1, got.chunks[i])]
    IN  IF ~md.readable \/ got.raise THEN [raise |-> FALSE, result |-> << >>]
        ELSE [raise |-> FALSE,
              result |-> SelectSeq(all, LAMBDA c : ~IsBlank(c.text))]

\* the files process_directory hands to process_file, in walk order: the .md
\* files of the directory (the curator writes no _repo_metadata.md)
WalkedFiles(dir) == SelectSeq(WalkOrder, LAMBDA rel : dir[rel].exists)

RECURSIVE ProcessAll(_, _, _)
ProcessAll(files, dir, seed) ==
    IF files = << >> THEN [raise |-> FALSE, result |-> << >>]
    ELSE LET first == process_file(Head(files), dir[Head(files)], seed)
             rest  == ProcessAll(Tail(files), dir, seed)
         IN  IF first.raise \/ rest.raise
             THEN [raise |-> TRUE, result |-> << >>]
             ELSE [raise |-> FALSE, result |-> first.result \o rest.result]

\* CodeChunker.process_directory
process_directory(dir, seed) == ProcessAll(WalkedFiles(dir), dir, seed).result

(***************************************************************************)
(* The chunk store: one JSON record per line.                              *)
(***************************************************************************)
NoStore == [exists |-> FALSE, lines |-> << >>]

Range(q) == {q[i] : i \in 1..Len(q)}

\* the keys of existing_chunks in insertion order
RECURSIVE SourcesOf(_)
SourcesOf(lines) ==
    IF lines = << >> THEN << >>
    ELSE LET rest == SourcesOf(Tail(lines))
             src  == Head(lines).source
         IN  <<src>> \o SelectSeq(rest, LAMBDA x : x # src)

\* CodeChunker._load_existing_chunks, as the (source, records) items of
\* existing_chunks in order; a line without a source is dropped
_load_existing_chunks(st) ==
    LET lines == SelectSeq(st.lines, LAMBDA c : c.source # "")
        srcs  == SourcesOf(lines)
    IN  [k \in 1..Len(srcs) |->
            [source |-> srcs[k],
             chunks |-> SelectSeq(lines, LAMBDA c : c.source = srcs[k])]]

\* the existing_chunks CodeChunker.__init__ leaves
ExistingChunks(st, incr) ==
    IF incr /\ st.exists THEN _load_existing_chunks(st) ELSE << >>

RECURSIVE KeptChunks_all(_, _)
\* save_jsonl taking over every record of existing_chunks
KeptChunks_all(existing, processed) ==
    IF existing = << >> THEN << >>
    ELSE Head(existing).chunks \o KeptChunks_all(Tail(existing), processed)

RECURSIVE KeptChunks(_, _)
\* the records save_jsonl takes over from existing_chunks
KeptChunks(existing, processed) ==
    IF existing = << >> THEN << >>
    ELSE (IF Head(existing).source \notin processed
          THEN Head(existing).chunks ELSE << >>)
         \o KeptChunks(Tail(existing), processed)

\* save_jsonl merging in every incremental run
save_jsonl_merging(chunks, processed, incr, existing) ==
    IF incr THEN KeptChunks(existing, processed) \o chunks ELSE chunks

\* CodeChunker.save_jsonl: the lines written; an empty processed_files is
\* false in the test of the merge
save_jsonl(chunks, processed, incr, existing) ==
    IF incr /\ processed # {}
    THEN KeptChunks(existing, processed) \o chunks
    ELSE chunks

(***************************************************************************)
(* State.                                                                  *)
(***************************************************************************)
VARIABLES
    disk,           \* relative path -> the file under the repository
    cacheFile,      \* the persisted BuildCache
    changed_files,  \* the orchestrator's changed_files: the set the
                    \* get_changed_files of this cycle returned
    report,         \* the "Deleted files" list get_changed_files printed in
                    \* this cycle
    op,             \* the operation that ran last
    live,           \* history: the paths update_cache recorded from a file
                    \* on disk since their deletion was last reported
    curated,        \* the curated directory: relative path -> its .md file
    store,          \* the chunk store, <repo>_code_chunks_ast.jsonl
    all_chunks,     \* what process_directory returned in the last run
    processed_files,\* the processed_files of the last CodeChunker.run
    dirty,          \* history: the curated directory was written since the
                    \* last run of the chunker
    rerun,          \* history: the last run of the chunker read the input
                    \* the run before it had read
    pc,             \* the stage process_local_repository is about to run
    incremental,    \* the incremental argument of the running cycle
    edits,          \* history: the writes to the repository so far
    grammar,        \* the language of the extractor under test
    tree,           \* the syntax tree the parser returned to it
    extracted,      \* what chunk_code returned for the tree
    identifiers,    \* the identifier captures under a node, as texts
    referenced,     \* what extract_references returned for them
    captured,       \* the labels of the captures a query returned, in order
    steps,          \* the iterations of the capture walk over them
    hook_list,      \* the hook entries handed to processHookEntries
    keywords,       \* the keywords of the hook analysis
    results         \* what processHookEntries returned

trackerVars == <<disk, cacheFile, changed_files, report, live>>

chunkerVars == <<curated, store, all_chunks, processed_files, dirty, rerun>>

cycleVars == <<pc, incremental, edits>>

hookVars == <<hook_list, keywords, results>>

extractVars ==
    <<grammar, tree, extracted, identifiers, referenced, captured, steps,
      hookVars>>

vars == <<trackerVars, op, chunkerVars, cycleVars, extractVars>>

(***************************************************************************)
(* IncrementalBuilder.                                                     *)
(***************************************************************************)
\* _get_all_code_files: every modelled path carries a tracked extension and
\* lies outside .git and node_modules
_get_all_code_files(d) == {p \in Paths : d[p].exists}

\* get_changed_files comparing modification times only
IsChanged_mtime_only(cache, f, rel_path) ==
    LET info == _get_file_info(f) IN
    IF info.shape = "raise" THEN TRUE
    ELSE IF rel_path \notin DOMAIN cache.files THEN TRUE
    ELSE LET cached == cache.files[rel_path] IN
         IF cached.shape # "pair" THEN TRUE
         ELSE info.mtime > cached.mtime

\* get_changed_files taking the hash as the only signal
IsChanged_hash_only(cache, f, rel_path) ==
    LET info == _get_file_info(f) IN
    IF info.shape = "raise" THEN TRUE
    ELSE IF rel_path \notin DOMAIN cache.files THEN TRUE
    ELSE LET cached == cache.files[rel_path] IN
         IF cached.shape # "pair" THEN TRUE
         ELSE info.hash # cached.hash

\* the test of get_changed_files on a listed file; TRUE puts it in the
\* returned set.  An exception (unreadable file, a cached entry that does not
\* unpack to two values, a cached mtime that is not a number) is caught and
\* also puts the file in the returned set.
IsChanged(cache, f, rel_path) ==
    LET info == _get_file_info(f) IN
    IF info.shape = "raise" THEN TRUE
    ELSE IF rel_path \notin DOMAIN cache.files THEN TRUE
    ELSE LET cached == cache.files[rel_path] IN
         IF cached.shape # "pair" THEN TRUE
         ELSE info.mtime > cached.mtime \/ info.hash # cached.hash

\* get_changed_files returning also the cached paths whose file is gone
ChangedFiles_with_deleted(cache, d) ==
    {Join(RepoPath, p) :
        p \in {q \in _get_all_code_files(d) : IsChanged(cache, d[q], q)}
              \cup {q \in DOMAIN cache.files : ~d[q].exists}}

\* the changed_files of get_changed_files
ChangedFiles(cache, d) ==
    {Join(RepoPath, p) :
        p \in {q \in _get_all_code_files(d) : IsChanged(cache, d[q], q)}}

\* get_changed_files without the test on cache['deleted_files']
NewlyDeleted_unrecorded(cache, current_files) ==
    {p \in DOMAIN cache.files : p \notin current_files}

\* the newly_deleted_files of get_changed_files
NewlyDeleted(cache, current_files) ==
    {p \in DOMAIN cache.files : p \notin current_files /\ p \notin cache.deleted}

\* get_changed_files writing the state of the files it returns into the
\* cache
get_changed_files_recording(outcome) ==
    LET cache == _load_cache(cacheFile)
        newly == NewlyDeleted(cache, _get_all_code_files(disk))
        seen == {p \in _get_all_code_files(disk) :
                    IsChanged(cache, disk[p], p)
                    /\ _get_file_info(disk[p]).shape = "pair"}
        files == [r \in DOMAIN cache.files \cup seen |->
                     IF r \in seen THEN _get_file_info(disk[r])
                     ELSE cache.files[r]]
        updated == [files |-> files, deleted |-> cache.deleted \cup newly]
    IN  /\ cacheFile' = _save_cache(updated, cacheFile, outcome)
        /\ changed_files' = ChangedFiles(cache, disk)
        /\ report' = newly
        /\ op' = "get_changed_files"
        /\ UNCHANGED <<disk, chunkerVars>>

\* IncrementalBuilder.get_changed_files
get_changed_files(outcome) ==
    LET cache == _load_cache(cacheFile)
        newly == NewlyDeleted(cache, _get_all_code_files(disk))
        updated == [cache EXCEPT !.deleted = cache.deleted \cup newly]
    IN  /\ cacheFile' = _save_cache(updated, cacheFile, outcome)
        /\ changed_files' = ChangedFiles(cache, disk)
        /\ report' = newly
        /\ op' = "get_changed_files"
        /\ UNCHANGED <<disk, chunkerVars>>

\* update_cache writing an entry only for a path whose curated file was
\* made of the content the file has now
Recorded_curated(processed, d) ==
    {r \in {RelPath(a, RepoPath) : a \in processed} :
        /\ r \in Paths /\ _get_file_info(d[r]).shape = "pair"
        /\ curated[r].exists
        /\ curated[r].code = DeclarationsIn(d[r].content)}

\* the paths update_cache writes an entry for: the processed paths whose
\* file can be read now
Recorded(processed, d) ==
    {r \in {RelPath(a, RepoPath) : a \in processed} :
        r \in Paths /\ _get_file_info(d[r]).shape = "pair"}

\* update_cache saving the cache it loaded, with no entry written
update_cache_unrecorded(processed, outcome) ==
    LET cache == _load_cache(cacheFile)
    IN  /\ cacheFile' = _save_cache(cache, cacheFile, outcome)
        /\ op' = "update_cache"
        /\ UNCHANGED <<disk, chunkerVars>>

\* IncrementalBuilder.update_cache
update_cache(processed, outcome) ==
    LET cache == _load_cache(cacheFile)
        rec == Recorded(processed, disk)
        files == [r \in DOMAIN cache.files \cup rec |->
                     IF r \in rec THEN _get_file_info(disk[r])
                     ELSE cache.files[r]]
        updated == [cache EXCEPT !.files = files]
    IN  /\ cacheFile' = _save_cache(updated, cacheFile, outcome)
        /\ op' = "update_cache"
        /\ UNCHANGED <<disk, chunkerVars>>

(***************************************************************************)
(* The environment: files are created, edited, touched and deleted.        *)
(***************************************************************************)
WriteFile(p, f) ==
    /\ disk[p] # f
    /\ disk' = [disk EXCEPT ![p] = f]
    /\ op' = "environment"
    /\ UNCHANGED <<cacheFile, changed_files, report, live, chunkerVars>>

DeleteFile(p) ==
    /\ disk[p].exists
    /\ disk' = [disk EXCEPT ![p] = NoFile]
    /\ op' = "environment"
    /\ UNCHANGED <<cacheFile, changed_files, report, live, chunkerVars>>

EnvironmentWrites ==
    \/ \E p \in Paths, f \in FileStates : WriteFile(p, f)
    \/ \E p \in Paths : DeleteFile(p)

Environment == EnvironmentWrites /\ UNCHANGED <<cycleVars, extractVars>>

(***************************************************************************)
(* The tracker with a cache file that only the tracker writes.             *)
(***************************************************************************)
GetChangedFiles ==
    \E o \in SaveOutcomes :
        get_changed_files(o) /\ UNCHANGED <<live, cycleVars, extractVars>>

\* the orchestrator's call, on the set get_changed_files returned; the cycle
\* ends with it, and its process with its locals and its output
UpdateCache ==
    \E o \in SaveOutcomes :
        /\ update_cache(changed_files, o)
        /\ changed_files' = {} /\ report' = {}
        /\ UNCHANGED <<live, cycleVars, extractVars>>

\* nothing was curated or chunked yet
ChunkerIdle ==
    /\ curated = [p \in Paths |-> NoCurated]
    /\ store = NoStore
    /\ all_chunks = << >>
    /\ processed_files = {}
    /\ dirty = FALSE
    /\ rerun = FALSE

\* no hook report is under analysis
HookIdle ==
    /\ hook_list = << >>
    /\ keywords = << >>
    /\ results = << >>

\* no extractor is under test
ExtractIdle ==
    /\ HookIdle
    /\ grammar = ""
    /\ tree = << >>
    /\ extracted = [raise |-> FALSE, chunks |-> << >>]
    /\ identifiers = << >>
    /\ referenced = << >>
    /\ captured = << >>
    /\ steps = << >>

\* no cycle is running
CycleIdle ==
    /\ pc = "idle"
    /\ incremental = TRUE
    /\ edits = 0

BuilderInit ==
    /\ disk \in [Paths -> FileStates \cup {NoFile}]
    /\ cacheFile = [kind |-> "absent"]
    /\ changed_files = {}
    /\ report = {}
    /\ op = "environment"
    /\ live = {}
    /\ ChunkerIdle
    /\ CycleIdle
    /\ ExtractIdle

BuilderNext == GetChangedFiles \/ UpdateCache \/ Environment

SpecBuilder == BuilderInit /\ [][BuilderNext]_vars

(***************************************************************************)
(* The chunker run on a curated directory that is written from outside.    *)
(***************************************************************************)
\* CodeChunker.__init__ and CodeChunker.run, one process with its hash seed
run(incr, seed) ==
    LET chunks == process_directory(curated, seed)
        processed == {chunks[i].source : i \in 1..Len(chunks)}
    IN  /\ all_chunks' = chunks
        /\ processed_files' = processed
        /\ store' = [exists |-> TRUE,
                     lines |-> save_jsonl(chunks, processed, incr,
                                          ExistingChunks(store, incr))]
        /\ op' = IF incr THEN "run_incremental" ELSE "run_full"
        /\ dirty' = FALSE
        /\ rerun' = ~dirty
        /\ UNCHANGED curated

Run == \E incr \in BOOLEAN, seed \in Seeds :
          run(incr, seed) /\ UNCHANGED <<trackerVars, cycleVars, extractVars>>

\* a curated file is written or removed
WriteCurated(rel, md) ==
    /\ curated[rel] # md
    /\ curated' = [curated EXCEPT ![rel] = md]
    /\ dirty' = TRUE
    /\ op' = "environment"
    /\ UNCHANGED <<trackerVars, store, all_chunks, processed_files, rerun,
                   cycleVars, extractVars>>

ChunkerInit ==
    /\ disk = [p \in Paths |-> NoFile]
    /\ cacheFile = [kind |-> "absent"]
    /\ changed_files = {}
    /\ report = {}
    /\ op = "environment"
    /\ live = {}
    /\ curated \in [Paths -> CuratedStates \cup {NoCurated}]
    /\ store = NoStore
    /\ all_chunks = << >>
    /\ processed_files = {}
    /\ dirty = TRUE
    /\ rerun = FALSE
    /\ CycleIdle
    /\ ExtractIdle

ChunkerNext ==
    \/ Run
    \/ \E rel \in Paths, md \in CuratedStates \cup {NoCurated} :
          WriteCurated(rel, md)

SpecChunker == ChunkerInit /\ [][ChunkerNext]_vars

(***************************************************************************)
(* process_local_repository: cycles over a repository that is written      *)
(* while they run.                                                         *)
(***************************************************************************)
\* the outcomes of a stage run as a subprocess (run_command)
StageOutcomes == {"success", "failure"}

\* the cycle returns; its process ends with its locals
Return ==
    /\ pc' = "idle"
    /\ incremental' = TRUE

\* lines 39-56: the cycle starts; an incremental cycle asks the tracker and
\* returns when nothing changed
Start ==
    /\ pc = "idle"
    /\ \E incr \in BOOLEAN :
          IF incr
          THEN /\ \E o \in SaveOutcomes : get_changed_files(o)
               /\ IF changed_files' = {} THEN Return
                  ELSE pc' = "curate" /\ incremental' = TRUE
          ELSE /\ changed_files' = {}
               /\ report' = {}
               /\ op' = "start"
               /\ pc' = "curate"
               /\ incremental' = FALSE
               /\ UNCHANGED <<disk, cacheFile, chunkerVars>>
    /\ UNCHANGED <<live, edits, extractVars>>

\* lines 69-92: codeCurator.py on the changed files, or on the repository
Curate ==
    /\ pc = "curate"
    /\ \E out \in StageOutcomes :
          IF out = "success"
          THEN /\ curated' = CuratorProcessDirectory(curated, disk,
                                                     changed_files)
               /\ dirty' = (dirty \/ curated' # curated)
               /\ pc' = "chunk"
               /\ UNCHANGED <<changed_files, report, incremental>>
          ELSE /\ Return
               /\ changed_files' = {} /\ report' = {}
               /\ UNCHANGED <<curated, dirty>>
    /\ op' = "curate"
    /\ UNCHANGED <<disk, cacheFile, live, store, all_chunks, processed_files,
                   rerun, edits, extractVars>>

\* the chunk stage with its return value ignored: the cycle goes on after a
\* failure
Chunk_unchecked ==
    /\ pc = "chunk"
    /\ \E out \in StageOutcomes :
          IF out = "success"
          THEN /\ \E seed \in Seeds : run(incremental, seed)
               /\ pc' = "vectorize"
          ELSE /\ pc' = "vectorize"
               /\ op' = "chunk_failed"
               /\ UNCHANGED chunkerVars
    /\ UNCHANGED <<changed_files, report, incremental>>
    /\ UNCHANGED <<disk, cacheFile, live, edits, extractVars>>

\* lines 94-108: codeChunker.py on the curated directory
Chunk ==
    /\ pc = "chunk"
    /\ \E out \in StageOutcomes :
          IF out = "success"
          THEN /\ \E seed \in Seeds : run(incremental, seed)
               /\ pc' = "vectorize"
               /\ UNCHANGED <<changed_files, report, incremental>>
          ELSE /\ Return
               /\ changed_files' = {} /\ report' = {}
               /\ op' = "chunk_failed"
               /\ UNCHANGED chunkerVars
    /\ UNCHANGED <<disk, cacheFile, live, edits, extractVars>>

\* lines 110-123: codeVectorize.py on the chunk store; a full cycle ends
\* with it
Vectorize ==
    /\ pc = "vectorize"
    /\ \E out \in StageOutcomes :
          IF out = "success" /\ incremental
          THEN /\ pc' = "update"
               /\ UNCHANGED <<changed_files, report, incremental>>
          ELSE /\ Return
               /\ changed_files' = {} /\ report' = {}
    /\ op' = "vectorize"
    /\ UNCHANGED <<disk, cacheFile, live, chunkerVars, edits, extractVars>>

\* the records of the store that come from the curated file of a path
RecordsOf(st, rel) == SelectSeq(st.lines, LAMBDA c : c.source = CuratedFile(rel))

\* the cycle ending with update_cache on the changed files that have a
\* record in the store
Update_chunked ==
    /\ pc = "update"
    /\ \E o \in SaveOutcomes :
          update_cache({a \in changed_files :
                           RecordsOf(store, RelPath(a, RepoPath)) # << >>}, o)
    /\ changed_files' = {} /\ report' = {}
    /\ Return
    /\ UNCHANGED <<live, edits, extractVars>>

\* lines 122-134: builder.update_cache(changed_files), and the cycle returns
Update ==
    /\ pc = "update"
    /\ \E o \in SaveOutcomes : update_cache(changed_files, o)
    /\ changed_files' = {} /\ report' = {}
    /\ Return
    /\ UNCHANGED <<live, edits, extractVars>>

\* the repository is written
Edit ==
    /\ edits < MaxEdits
    /\ EnvironmentWrites
    /\ edits' = edits + 1
    /\ UNCHANGED <<pc, incremental, extractVars>>

CycleInit ==
    /\ disk \in [Paths -> [exists : {TRUE}, readable : {TRUE}, mtime : {1},
                          content : Contents] \cup {NoFile}]
    /\ cacheFile = [kind |-> "absent"]
    /\ changed_files = {}
    /\ report = {}
    /\ op = "environment"
    /\ live = {}
    /\ ChunkerIdle
    /\ CycleIdle
    /\ ExtractIdle

CycleNext == Start \/ Curate \/ Chunk \/ Vectorize \/ Update \/ Edit

SpecCycle == CycleInit /\ [][CycleNext]_vars

(***************************************************************************)
(* The tracker with the history of the paths recorded since their last     *)
(* reported deletion.                                                      *)
(***************************************************************************)
GetChangedFilesH ==
    \E o \in SaveOutcomes :
        /\ get_changed_files(o)
        /\ live' = live \ report'
        /\ UNCHANGED <<cycleVars, extractVars>>

UpdateCacheH ==
    \E o \in SaveOutcomes :
        /\ update_cache(changed_files, o)
        /\ changed_files' = {} /\ report' = {}
        /\ live' = IF o = "ok"
                   THEN live \cup Recorded(changed_files, disk)
                   ELSE live
        /\ UNCHANGED <<cycleVars, extractVars>>

HistoryNext == GetChangedFilesH \/ UpdateCacheH \/ Environment

SpecHistory == BuilderInit /\ [][HistoryNext]_vars

(***************************************************************************)
(* The tracker with a cache file that is damaged from outside.             *)
(***************************************************************************)
\* the documents a damaged cache file may hold
Corruptions(cf) ==
    {[kind |-> "absent"], [kind |-> "invalid"],
     [kind |-> "json", haskey |-> TRUE, isdict |-> FALSE, files |-> << >>,
      delshape |-> "list", deleted |-> {}]}
    \cup (IF cf.kind # "json" THEN {}
          ELSE {[cf EXCEPT !.files[k] =
                     [shape |-> sh, mtime |-> 0, hash |-> << >>]] :
                   k \in DOMAIN cf.files, sh \in {"number", "short", "text"}}
               \cup {[cf EXCEPT !.delshape = "number", !.deleted = {}],
                     [cf EXCEPT !.delshape = "text", !.deleted = {"x"}],
                     [cf EXCEPT !.haskey = FALSE, !.delshape = "list",
                                !.deleted = {}]})

CorruptCache ==
    /\ \E c \in Corruptions(cacheFile) : cacheFile # c /\ cacheFile' = c
    /\ op' = "environment"
    /\ UNCHANGED <<disk, changed_files, report, live, chunkerVars, cycleVars, extractVars>>

CorruptNext == GetChangedFiles \/ UpdateCache \/ Environment \/ CorruptCache

SpecCorrupt == BuilderInit /\ [][CorruptNext]_vars

(***************************************************************************)
(* Properties of the tracker.                                              *)
(***************************************************************************)
\* a step of get_changed_files
GcfStep == op' = "get_changed_files"

\* the cache get_changed_files loads in the current state
Cached == _load_cache(cacheFile)

Known(p) == p \in DOMAIN Cached.files /\ Cached.files[p].shape = "pair"

CanRead(p) == disk[p].exists /\ disk[p].readable

\* C4: get_changed_files returns a listed file whose mtime and hash can be
\* read exactly when its path is not cached, or its mtime is newer than the
\* cached mtime, or its hash differs from the cached hash
C4_ChangeClassification ==
    [][GcfStep =>
        \A p \in Paths : CanRead(p) =>
            (Join(RepoPath, p) \in changed_files' <=>
                \/ p \notin DOMAIN Cached.files
                \/ disk[p].mtime > Cached.files[p].mtime
                \/ _calculate_file_hash(disk[p].content) # Cached.files[p].hash)]_vars

\* a state get_changed_files leaves: one known file with the cached pair is
\* not returned, another known file with a different hash is returned
C4_Witness ==
    /\ op = "get_changed_files"
    /\ \E p, q \in Paths :
        /\ Known(p) /\ CanRead(p) /\ Known(q) /\ CanRead(q)
        /\ disk[p].mtime = Cached.files[p].mtime
        /\ _calculate_file_hash(disk[p].content) = Cached.files[p].hash
        /\ Join(RepoPath, p) \notin changed_files
        /\ disk[q].mtime = Cached.files[q].mtime
        /\ _calculate_file_hash(disk[q].content) # Cached.files[q].hash
        /\ Join(RepoPath, q) \in changed_files

\* a known file whose mtime is newer than the cached one and whose bytes
\* are the cached ones
Touched(p) ==
    /\ Known(p) /\ CanRead(p)
    /\ disk[p].mtime > Cached.files[p].mtime
    /\ _calculate_file_hash(disk[p].content) = Cached.files[p].hash

\* C5 as stated: a touched file whose hash matches the cached hash is not in
\* the set get_changed_files returns
C5_HashAuthoritative ==
    [][GcfStep =>
        \A p \in Paths : Touched(p) => Join(RepoPath, p) \notin changed_files']_vars

\* C5 amended: a touched file is returned although its hash matches; a known
\* file is left out exactly when its hash matches and its mtime is not newer
C5_TouchIsChange ==
    [][GcfStep =>
        \A p \in Paths :
            /\ Touched(p) => Join(RepoPath, p) \in changed_files'
            /\ (Known(p) /\ CanRead(p)) =>
                (Join(RepoPath, p) \notin changed_files' <=>
                    /\ _calculate_file_hash(disk[p].content) = Cached.files[p].hash
                    /\ disk[p].mtime <= Cached.files[p].mtime)]_vars

\* a touched file is in the set get_changed_files returned for this state
C5_Witness ==
    /\ op = "get_changed_files"
    /\ \E p \in Paths : Touched(p) /\ Join(RepoPath, p) \in changed_files

\* C6: a path recorded as deleted stays recorded while the cache knows it,
\* and while its file is absent no get_changed_files reports it as deleted
\* again nor returns it as changed
C6_DeletionIdempotent ==
    [][(op' # "environment") =>
        \A p \in Paths : p \in Cached.deleted =>
          /\ (p \in DOMAIN Cached'.files => p \in Cached'.deleted)
          /\ (GcfStep /\ ~disk[p].exists) =>
                (p \notin report' /\ Join(RepoPath, p) \notin changed_files')]_vars

\* a recorded deletion that the last get_changed_files did not report again
C6_Witness ==
    \E p \in Paths :
        /\ p \in Cached.deleted /\ p \in DOMAIN Cached.files
        /\ ~disk[p].exists
        /\ op = "get_changed_files" /\ report = {}

\* C7 as stated: the deletion of a path that was recorded from its file
\* since its deletion was last reported is reported by get_changed_files
C7_SecondDeletionReported ==
    [][GcfStep =>
        \A p \in Paths :
            (p \in live /\ ~disk[p].exists /\ p \in DOMAIN Cached.files)
                => p \in report']_vars

\* the cache file is unreadable or malformed
Malformed(cf) ==
    \/ cf.kind = "invalid"
    \/ /\ cf.kind = "json"
       /\ \/ ~cf.isdict
          \/ \E k \in DOMAIN cf.files : cf.files[k].shape # "pair"
          \/ cf.haskey /\ cf.delshape # "list"

\* C8 as stated: with a malformed cache get_changed_files returns every
\* listed file and reports no deletion
C8_MalformedIsEmpty ==
    [][(GcfStep /\ Malformed(cacheFile)) =>
        /\ changed_files' = {Join(RepoPath, p) : p \in _get_all_code_files(disk)}
        /\ report' = {}]_vars

\* what get_changed_files may do to the cache: every entry stays as it is,
\* no path is added, and the deleted set grows by newly deleted paths only
Framed ==
    /\ Cached'.files = Cached.files
    /\ Cached.deleted \subseteq Cached'.deleted
    /\ Cached'.deleted \subseteq
          Cached.deleted \cup NewlyDeleted(Cached, _get_all_code_files(disk))

\* a get_changed_files right after another returns what the first returned
ReportedAgain ==
    (GcfStep /\ op = "get_changed_files") =>
        changed_files \subseteq changed_files'

RunStep == op' \in {"run_full", "run_incremental"}

\* the sources process_directory hands to process_file in the current state
Reprocessed == {CuratedFile(rel) : rel \in {r \in Paths : curated[r].exists}}

NoDuplicate(q) == \A i, j \in 1..Len(q) : q[i] = q[j] => i = j

\* C1: after an incremental run the store holds exactly the stored records
\* of the sources that were not reprocessed and the fresh records, none of
\* them twice
C1_WholeFileReplacement ==
    [][op' = "run_incremental" =>
          /\ Range(store'.lines) =
                {c \in Range(store.lines) : c.source \notin Reprocessed}
                \cup Range(all_chunks')
          /\ NoDuplicate(store'.lines)]_vars

\* C2: after an incremental run every stored record of a reprocessed source
\* is one of the fresh records of this run
C2_NoStaleRecord ==
    [][op' = "run_incremental" =>
          \A c \in Range(store'.lines) :
              c.source \in Reprocessed => c \in Range(all_chunks')]_vars

\* processing the curated file fails
Fails(md) ==
    md.exists /\ (~md.readable \/ md.language \notin Chunkers
                  \/ md.code = Crash)

\* C9: a failing curated file gives no chunk, and the run returns the chunks
\* it returns for the directory without that file
C9_FailureContained ==
    [][RunStep =>
          \A rel \in Paths :
              Fails(curated[rel]) =>
                 /\ \A c \in Range(all_chunks') : c.source # CuratedFile(rel)
                 /\ \E seed \in Seeds :
                       all_chunks' =
                          process_directory(
                              [curated EXCEPT ![rel] = NoCurated], seed)]_vars

\* C9 witness: the first file of the walk failed and the run went on to
\* return the chunks of the file after it
C9_Witness ==
    /\ op \in {"run_full", "run_incremental"}
    /\ ~dirty
    /\ Fails(curated[WalkOrder[1]])
    /\ all_chunks # << >>

\* C10 as stated: a run on the input of the run before it returns the same
\* records in the same order
C10_SameRecords ==
    [][RunStep /\ ~dirty => all_chunks' = all_chunks]_vars

\* a record without its references
Unordered(c) == [c EXCEPT !.references = Range(c.references)]

\* C10: the id is the digest of source, header filename, chunk type and
\* index, and a run on the input of the run before it returns the same
\* records in the same order up to the order of the tokens in references
C10_StableIdentity ==
    [][RunStep =>
          /\ \A c \in Range(all_chunks') :
                c.id = Md5(c.source \o ":" \o c.filename \o ":" \o c.type
                           \o ":" \o ToString(c.chunk_index))
          /\ ~dirty =>
                /\ Len(all_chunks') = Len(all_chunks)
                /\ \A i \in 1..Len(all_chunks) :
                      Unordered(all_chunks'[i]) = Unordered(all_chunks[i])]_vars

\* C10 witness: the chunker ran twice on the same input and returned records
\* of both files, one of them with several references
C10_Witness ==
    /\ rerun /\ ~dirty
    /\ \A rel \in Paths :
          \E c \in Range(all_chunks) : c.source = CuratedFile(rel)
    /\ \E c \in Range(all_chunks) : Len(c.references) > 1

ExtractorLanguages == {"java", "javascript", "kotlin", "python", "objc"}

Kind(type, ident) == [type |-> type, ident |-> ident]

\* the declarations of a grammar that the walks tell apart
NodeKinds(g) ==
    CASE g = "java" ->
            {Kind("class_declaration", "identifier"),
             Kind("interface_declaration", "identifier"),
             Kind("method_declaration", "identifier"),
             Kind("constructor_declaration", "identifier")}
      [] g = "javascript" ->
            {Kind("class_declaration", "identifier"),
             Kind("class", "identifier"),
             Kind("method_definition", "property_identifier"),
             Kind("function_declaration", "identifier"),
             Kind("arrow_function", "identifier"),
             Kind("arrow_function", "formal_parameters")}
      [] g = "kotlin" ->
            {Kind("class_declaration", "simple_identifier"),
             Kind("class_declaration", "type_identifier"),
             Kind("object_declaration", "simple_identifier"),
             Kind("function_declaration", "simple_identifier")}
      [] g = "python" ->
            {Kind("class_definition", "identifier"),
             Kind("function_definition", "identifier"),
             Kind("decorated_definition", "decorator")}
      [] OTHER ->
            {Kind("class_interface", "identifier"),
             Kind("category_interface", "identifier"),
             Kind("category_implementation", "identifier"),
             Kind("method_declaration", "identifier")}

\* node.parent of every node: a node above it in source order
ParentLinks(n) == {f \in [1..n -> 0..(n - 1)] : \A i \in 1..n : f[i] < i}

\* the tree of the given nodes under the given links
Tree(kinds, links) ==
    [i \in DOMAIN kinds |-> [type |-> kinds[i].type, ident |-> kinds[i].ident,
                             parent |-> links[i]]]

\* the text of the name child of node i
NameText(i) == "n" \o ToString(i)

\* TreeSitterLanguage._get_node_text of a declaration node
_get_node_text(t, i) == t[i].type \o " " \o NameText(i)

\* node i lies in the subtree of node a
RECURSIVE Within(_, _, _)
Within(t, i, a) ==
    IF i = a THEN TRUE
    ELSE IF i = 0 THEN FALSE
    ELSE Within(t, t[i].parent, a)

Subtree(t, a) == {i \in 1..Len(t) : Within(t, i, a)}

Max(S) == CHOOSE x \in S : \A y \in S : y <= x

\* the lines of a node taken as the line it starts on alone
_get_node_lines_first(t, i) == <<i - 1, i - 1>>

\* TreeSitterLanguage._get_node_lines: start_point[0] and end_point[0], with
\* every declaration starting on a line of its own
_get_node_lines(t, i) == <<i - 1, Max(Subtree(t, i)) - 1>>

\* _get_node_lines giving rows as line numbers
start_line_of_row(row) == row

\* start_line + 1, end_line + 1
start_line_of(row) == row + 1

\* the walk "while parent: if parent.type ...: break; parent = parent.parent"
\* from node p: the node it stops at, 0 when it leaves the tree
RECURSIVE Enclosing(_, _, _)
Enclosing(t, p, types) ==
    IF p = 0 THEN 0
    ELSE IF t[p].type \in types THEN p
    ELSE Enclosing(t, t[p].parent, types)

(***************************************************************************)
(* extract_references.                                                     *)
(***************************************************************************)
\* the keywords set of each extract_references
Keywords(g) ==
    CASE g = "java" ->
            {"public", "private", "protected", "class", "interface",
             "extends", "implements", "return", "if", "else", "for", "while",
             "try", "catch", "finally", "throw", "throws", "new", "this",
             "super", "static", "final", "void", "true", "false", "null"}
      [] g = "javascript" ->
            {"function", "return", "const", "let", "var", "if", "else", "for",
             "while", "try", "catch", "this", "class", "true", "false", "null",
             "undefined"}
      [] g = "kotlin" ->
            {"val", "var", "fun", "class", "object", "interface", "override",
             "private", "public", "protected", "internal", "return", "if",
             "else", "when", "true", "false", "null", "this", "super"}
      [] g = "python" ->
            {"self", "None", "True", "False", "if", "else", "for", "while",
             "try", "except", "def", "class", "return", "with", "as"}
      [] OTHER ->
            {"self", "super", "nil", "Nil", "NULL", "YES", "NO", "id",
             "instancetype", "void", "BOOL", "return", "if", "else", "for",
             "while", "case", "break", "default", "class", "interface",
             "implementation", "protocol", "property", "synthesize",
             "dynamic"}

\* the node type query_references captures
ReferenceType(g) == IF g = "kotlin" THEN "simple_identifier" ELSE "identifier"

\* references.add over a sequence: the members in the order the set met them
RECURSIVE AddAll(_)
AddAll(q) ==
    IF q = << >> THEN << >>
    ELSE LET front == AddAll(SubSeq(q, 1, Len(q) - 1))
             last  == q[Len(q)]
         IN  IF \E k \in 1..Len(front) : front[k] = last THEN front
             ELSE Append(front, last)

\* extract_references keeping the keywords
extract_references_unfiltered(ids, g, seed) ==
    ListOfSet(AddAll(SelectSeq(ids, LAMBDA x : x # "")), seed)

\* extract_references on the texts of the identifier captures
extract_references(ids, g, seed) ==
    ListOfSet(AddAll(SelectSeq(ids, LAMBDA x : x # "" /\ x \notin Keywords(g))),
              seed)

\* the texts query_references captures under node a, in source order
RECURSIVE IdentifiersFrom(_, _, _, _)
IdentifiersFrom(t, g, a, i) ==
    IF i > Len(t) THEN << >>
    ELSE (IF Within(t, i, a) /\ t[i].ident = ReferenceType(g)
          THEN <<NameText(i)>> ELSE << >>)
         \o IdentifiersFrom(t, g, a, i + 1)

\* the meta of a chunk; node is the node it was made from, kept for the
\* properties; a meta without a parent key reads as None in process_file
Meta(t, g, i, chunk_type, name, parent, seed) ==
    [node |-> i,
     text |-> _get_node_text(t, i),
     start_line |-> start_line_of(_get_node_lines(t, i)[1]),
     end_line |-> start_line_of(_get_node_lines(t, i)[2]),
     chunk_type |-> chunk_type,
     name |-> name,
     parent |-> parent,
     refs |-> extract_references(IdentifiersFrom(t, g, i, 1), g, seed)]

\* a capture (node, label): the node is a declaration or its name child
Capture(i, part, label) == [node |-> [id |-> i, part |-> part], label |-> label]

\* the captures of a pattern "(type name: (...) @name_label) @label" on node i
Pair(i, label, name_label) ==
    <<Capture(i, "self", label), Capture(i, "name", name_label)>>

RECURSIVE Flatten(_)
Flatten(qq) == IF qq = << >> THEN << >> ELSE Head(qq) \o Flatten(Tail(qq))

\* the name after the capture of node p under one of the labels, as the
\* loop "for j, cap in enumerate(captures)" leaves it
NameAfter(captures, p, labels, name_labels) ==
    LET hits == {j \in 1..Len(captures) :
                    /\ captures[j].node = [id |-> p, part |-> "self"]
                    /\ captures[j].label \in labels
                    /\ j + 1 <= Len(captures)
                    /\ captures[j + 1].label \in name_labels}
    IN  IF hits = {} THEN None
        ELSE Some(NameText(captures[Max(hits) + 1].node.id))

(***************************************************************************)
(* JavaChunker.                                                            *)
(***************************************************************************)
\* self.query.captures(tree.root_node), in source order
JavaCaptures(t) ==
    Flatten([i \in 1..Len(t) |->
        CASE t[i].type = "class_declaration" -> Pair(i, "class", "class_name")
          [] t[i].type = "method_declaration" ->
                Pair(i, "method", "method_name")
          [] t[i].type = "constructor_declaration" ->
                Pair(i, "constructor", "constructor_name")
          [] OTHER -> << >>])

\* lines 125-136 and 165-175: the parent class of a member
JavaParent(t, captures, i) ==
    LET p == Enclosing(t, t[i].parent, {"class_declaration"})
    IN  IF p = 0 THEN None
        ELSE NameAfter(captures, p, {"class"}, {"class_name"})

\* the while loop of JavaChunker.chunk_code from cursor i
RECURSIVE JavaWalk(_, _, _, _)
JavaWalk(t, captures, i, seed) ==
    IF i > Len(captures) THEN << >>
    ELSE
      LET c == captures[i]
          id == c.node.id
          named(l) == i + 1 <= Len(captures) /\ captures[i + 1].label = l
          name == NameText(captures[i + 1].node.id)
      IN  CASE c.label = "class" /\ named("class_name") ->
                  <<Meta(t, "java", id, "class", name, None, seed)>>
                  \o JavaWalk(t, captures, i + 2, seed)
            [] c.label = "method" /\ named("method_name") ->
                  <<Meta(t, "java", id, "method", name,
                         JavaParent(t, captures, id), seed)>>
                  \o JavaWalk(t, captures, i + 2, seed)
            [] c.label = "constructor" /\ named("constructor_name") ->
                  <<Meta(t, "java", id, "constructor", name,
                         JavaParent(t, captures, id), seed)>>
                  \o JavaWalk(t, captures, i + 2, seed)
            [] OTHER -> JavaWalk(t, captures, i + 1, seed)

\* JavaChunker.chunk_code
JavaChunkCode(t, seed) == JavaWalk(t, JavaCaptures(t), 1, seed)

(***************************************************************************)
(* JavaScriptChunker.                                                      *)
(***************************************************************************)
\* self.query_function.captures(tree.root_node); an arrow function is
\* captured with its parameter only when the parameter is one identifier
JavaScriptCaptures(t) ==
    Flatten([i \in 1..Len(t) |->
        CASE t[i].type = "function_declaration" ->
                Pair(i, "function", "function_name")
          [] t[i].type = "method_definition" ->
                Pair(i, "method", "method_name")
          [] t[i].type = "arrow_function" /\ t[i].ident = "identifier" ->
                Pair(i, "arrow_function", "param_name")
          [] t[i].type = "class_declaration" ->
                Pair(i, "class", "class_name")
          [] OTHER -> << >>])

\* lines 127-137: the parent class of a method
JavaScriptParent(t, captures, i) ==
    LET p == Enclosing(t, t[i].parent, {"class_declaration"})
    IN  IF p = 0 THEN None
        ELSE NameAfter(captures, p, {"class"}, {"class_name"})

\* the while loop of JavaScriptChunker.chunk_code from cursor i
RECURSIVE JavaScriptWalk(_, _, _, _)
JavaScriptWalk(t, captures, i, seed) ==
    IF i > Len(captures) THEN << >>
    ELSE
      LET c == captures[i]
          id == c.node.id
          named(l) == i + 1 <= Len(captures) /\ captures[i + 1].label = l
          name == NameText(captures[i + 1].node.id)
          g == "javascript"
      IN  CASE c.label = "function" /\ named("function_name") ->
                  <<Meta(t, g, id, "function", name, None, seed)>>
                  \o JavaScriptWalk(t, captures, i + 2, seed)
            [] c.label = "method" /\ named("method_name") ->
                  <<Meta(t, g, id, "method", name,
                         JavaScriptParent(t, captures, id), seed)>>
                  \o JavaScriptWalk(t, captures, i + 2, seed)
            [] c.label = "class" /\ named("class_name") ->
                  <<Meta(t, g, id, "class", name, None, seed)>>
                  \o JavaScriptWalk(t, captures, i + 2, seed)
            [] c.label = "arrow_function" /\ named("param_name") ->
                  <<Meta(t, g, id, "arrow_function",
                         "arrow_function(" \o name \o ")", None, seed)>>
                  \o JavaScriptWalk(t, captures, i + 2, seed)
            [] c.label = "arrow_function" /\ ~named("param_name") ->
                  <<Meta(t, g, id, "arrow_function",
                         "anonymous_arrow_function", None, seed)>>
                  \o JavaScriptWalk(t, captures, i + 1, seed)
            [] OTHER -> JavaScriptWalk(t, captures, i + 1, seed)

\* JavaScriptChunker.chunk_code
JavaScriptChunkCode(t, seed) ==
    JavaScriptWalk(t, JavaScriptCaptures(t), 1, seed)

(***************************************************************************)
(* KotlinChunker.                                                          *)
(***************************************************************************)
\* self.query.captures(tree.root_node): nodes only, no name captures
KotlinCaptures(t) ==
    Flatten([i \in 1..Len(t) |->
        CASE t[i].type = "class_declaration" -> <<Capture(i, "self", "class")>>
          [] t[i].type = "function_declaration" ->
                <<Capture(i, "self", "function")>>
          [] OTHER -> << >>])

\* "for child in node.children: if child.type == 'simple_identifier'": the
\* text of the first such child, found or not
FirstSimpleIdentifier(t, i) ==
    IF t[i].ident = "simple_identifier" THEN Some(NameText(i)) ELSE None

\* the name of lines 79-84 and 99-102
KotlinName(t, i) ==
    IF FirstSimpleIdentifier(t, i) = None THEN "Unknown"
    ELSE FirstSimpleIdentifier(t, i)[1]

\* the chunk of one capture of KotlinChunker.chunk_code
KotlinChunk(t, c, seed) ==
    LET id == c.node.id
        p == Enclosing(t, t[id].parent, {"class_declaration"})
    IN  IF c.label = "class"
        THEN Meta(t, "kotlin", id, "class", KotlinName(t, id), None, seed)
        ELSE Meta(t, "kotlin", id,
                  IF p # 0 THEN "method" ELSE "function",
                  KotlinName(t, id),
                  IF p = 0 THEN None ELSE FirstSimpleIdentifier(t, p),
                  seed)

\* KotlinChunker.chunk_code
KotlinChunkCode(t, seed) ==
    LET captures == KotlinCaptures(t)
    IN  [k \in 1..Len(captures) |-> KotlinChunk(t, captures[k], seed)]

(***************************************************************************)
(* PythonChunker.                                                          *)
(***************************************************************************)
\* self.query_class.captures(tree.root_node)
PythonClassCaptures(t) ==
    Flatten([i \in 1..Len(t) |->
        IF t[i].type = "class_definition"
        THEN Pair(i, "class", "class_name") ELSE << >>])

\* self.query_function.captures(tree.root_node)
PythonFunctionCaptures(t) ==
    Flatten([i \in 1..Len(t) |->
        IF t[i].type = "function_definition"
        THEN Pair(i, "function", "function_name") ELSE << >>])

\* self.query_method.captures(tree.root_node): the function definitions that
\* are statements of the block of a class body
PythonMethodCaptures(t) ==
    Flatten([i \in 1..Len(t) |->
        IF /\ t[i].type = "function_definition"
           /\ t[i].parent # 0
           /\ t[t[i].parent].type = "class_definition"
        THEN Pair(i, "method", "method_name") ELSE << >>])

\* range(0, len(captures), 2) without the index whose partner is missing
PairStarts(captures) ==
    SelectSeq([k \in 1..((Len(captures) + 1) \div 2) |-> 2 * k - 1],
              LAMBDA j : j + 1 <= Len(captures))

\* lines 161-172: the parent class of a method
PythonParent(t, class_captures, i) ==
    LET p == Enclosing(t, t[i].parent, {"class_definition"})
        at == {j \in 1..Len(class_captures) :
                  class_captures[j].node = [id |-> p, part |-> "self"]}
    IN  IF p = 0 \/ at = {} THEN None
        ELSE LET idx == (CHOOSE j \in at : \A k \in at : j <= k) + 1
             IN  IF idx <= Len(class_captures)
                 THEN Some(NameText(class_captures[idx].node.id))
                 ELSE None

\* PythonChunker.chunk_code: the classes, the functions outside every
\* class, the methods
PythonChunkCode(t, seed) ==
    LET cc == PythonClassCaptures(t)
        fc == PythonFunctionCaptures(t)
        mc == PythonMethodCaptures(t)
        classes == [k \in 1..Len(PairStarts(cc)) |->
            LET j == PairStarts(cc)[k] IN
            Meta(t, "python", cc[j].node.id, "class",
                 NameText(cc[j + 1].node.id), None, seed)]
        plain == SelectSeq(PairStarts(fc), LAMBDA j :
            Enclosing(t, t[fc[j].node.id].parent, {"class_definition"}) = 0)
        functions == [k \in 1..Len(plain) |->
            LET j == plain[k] IN
            Meta(t, "python", fc[j].node.id, "function",
                 NameText(fc[j + 1].node.id), None, seed)]
        methods == [k \in 1..Len(PairStarts(mc)) |->
            LET j == PairStarts(mc)[k] IN
            Meta(t, "python", mc[j].node.id, "method",
                 NameText(mc[j + 1].node.id),
                 PythonParent(t, cc, mc[j].node.id), seed)]
    IN  classes \o functions \o methods

(***************************************************************************)
(* The extractors behind CodeChunker.chunkers.                             *)
(***************************************************************************)
\* chunk_code of the extractor of grammar g; ObjectiveCChunker.chunk_code
\* calls extract_imports, which reads self.query_imports, an attribute that
\* __init__ does not set: AttributeError
chunk_code(g, t, seed) ==
    CASE g = "java" -> [raise |-> FALSE, chunks |-> JavaChunkCode(t, seed)]
      [] g = "javascript" ->
            [raise |-> FALSE, chunks |-> JavaScriptChunkCode(t, seed)]
      [] g = "kotlin" -> [raise |-> FALSE, chunks |-> KotlinChunkCode(t, seed)]
      [] g = "python" -> [raise |-> FALSE, chunks |-> PythonChunkCode(t, seed)]
      [] OTHER -> [raise |-> TRUE, chunks |-> << >>]

\* nothing is tracked
TrackerIdle ==
    /\ disk = [p \in Paths |-> NoFile]
    /\ cacheFile = [kind |-> "absent"]
    /\ changed_files = {}
    /\ report = {}
    /\ live = {}

\* an extractor is handed the tree of a source
ExtractInit ==
    /\ TrackerIdle
    /\ ChunkerIdle
    /\ CycleIdle
    /\ op = "parse"
    /\ grammar \in ExtractorLanguages
    /\ \E n \in 1..MaxNodes :
          \E kinds \in [1..n -> NodeKinds(grammar)], links \in ParentLinks(n) :
              tree = Tree(kinds, links)
    /\ extracted = [raise |-> FALSE, chunks |-> << >>]
    /\ identifiers = << >>
    /\ referenced = << >>
    /\ captured = << >>
    /\ steps = << >>
    /\ HookIdle

ChunkCode ==
    /\ op = "parse"
    /\ \E seed \in Seeds : extracted' = chunk_code(grammar, tree, seed)
    /\ op' = "chunk_code"
    /\ UNCHANGED <<trackerVars, chunkerVars, cycleVars, grammar, tree,
                   identifiers, referenced, captured, steps, hookVars>>

ExtractNext == ChunkCode

SpecExtract == ExtractInit /\ [][ExtractNext]_vars

\* the texts of the identifier captures handed to extract_references: an
\* empty text, two keywords of the language, two other names
TokenTexts(g) ==
    {"", "class", IF g \in {"python", "objc"} THEN "self" ELSE "this",
     "x", "y"}

\* an extractor is handed the identifier captures under a node
ReferencesInit ==
    /\ TrackerIdle
    /\ ChunkerIdle
    /\ CycleIdle
    /\ op = "captures"
    /\ grammar \in ExtractorLanguages
    /\ tree = << >>
    /\ extracted = [raise |-> FALSE, chunks |-> << >>]
    /\ \E n \in 0..MaxTokens : identifiers \in [1..n -> TokenTexts(grammar)]
    /\ referenced = << >>
    /\ captured = << >>
    /\ steps = << >>
    /\ HookIdle

ExtractReferences ==
    /\ op = "captures"
    /\ \E seed \in Seeds :
          referenced' = extract_references(identifiers, grammar, seed)
    /\ op' = "extract_references"
    /\ UNCHANGED <<trackerVars, chunkerVars, cycleVars, grammar, tree,
                   extracted, identifiers, captured, steps, hookVars>>

ReferencesNext == ExtractReferences

SpecReferences == ReferencesInit /\ [][ReferencesNext]_vars

(***************************************************************************)
(* The capture walks, on the labels of the captures alone.                 *)
(***************************************************************************)
\* the labels of the query of each extractor (for Python the class query)
CaptureLabels(g) ==
    CASE g = "java" ->
            {"class", "class_name", "method", "method_name", "constructor",
             "constructor_name"}
      [] g = "javascript" ->
            {"function", "function_name", "method", "method_name",
             "arrow_function", "param_name", "class", "class_name"}
      [] g = "kotlin" -> {"class", "function"}
      [] g = "python" -> {"class", "class_name"}
      [] OTHER ->
            {"class_interface", "class_name", "category_interface",
             "category_class_name", "category_name", "protocol",
             "protocol_name", "class_implementation", "impl_class_name",
             "category_implementation", "category_impl_class_name",
             "category_impl_name", "method"}

\* one iteration: the cursor goes on by advance, emits chunks are appended
Step(advance, emits) == [advance |-> advance, emits |-> emits]

\* "if i + 1 < len(captures) and captures[i + 1][1] == l", k captures on
Follows(labels, i, k, l) == i + k <= Len(labels) /\ labels[i + k] = l

\* the walk of JavaChunker taking the capture after a class for its name
\* whatever its label
JavaStep_unchecked(labels, i) ==
    CASE labels[i] = "class" ->
            IF i + 1 <= Len(labels) THEN Step(2, 1) ELSE Step(1, 0)
      [] labels[i] = "method" ->
            IF Follows(labels, i, 1, "method_name") THEN Step(2, 1)
            ELSE Step(1, 0)
      [] labels[i] = "constructor" ->
            IF Follows(labels, i, 1, "constructor_name") THEN Step(2, 1)
            ELSE Step(1, 0)
      [] OTHER -> Step(1, 0)

\* an iteration of the while loop of JavaChunker.chunk_code
JavaStep(labels, i) ==
    CASE labels[i] = "class" ->
            IF Follows(labels, i, 1, "class_name") THEN Step(2, 1)
            ELSE Step(1, 0)
      [] labels[i] = "method" ->
            IF Follows(labels, i, 1, "method_name") THEN Step(2, 1)
            ELSE Step(1, 0)
      [] labels[i] = "constructor" ->
            IF Follows(labels, i, 1, "constructor_name") THEN Step(2, 1)
            ELSE Step(1, 0)
      [] OTHER -> Step(1, 0)

\* an iteration of the while loop of JavaScriptChunker.chunk_code
JavaScriptStep(labels, i) ==
    CASE labels[i] = "function" ->
            IF Follows(labels, i, 1, "function_name") THEN Step(2, 1)
            ELSE Step(1, 0)
      [] labels[i] = "method" ->
            IF Follows(labels, i, 1, "method_name") THEN Step(2, 1)
            ELSE Step(1, 0)
      [] labels[i] = "class" ->
            IF Follows(labels, i, 1, "class_name") THEN Step(2, 1)
            ELSE Step(1, 0)
      [] labels[i] = "arrow_function" ->
            IF Follows(labels, i, 1, "param_name") THEN Step(2, 1)
            ELSE Step(1, 1)
      [] OTHER -> Step(1, 0)

\* an iteration of "for node, node_type in captures" of KotlinChunker
KotlinStep(labels, i) ==
    IF labels[i] \in {"class", "function"} THEN Step(1, 1) ELSE Step(1, 0)

\* an iteration of "for i in range(0, len(class_captures), 2)" of
\* PythonChunker: no label is read
PythonStep(labels, i) ==
    IF i + 1 <= Len(labels) THEN Step(2, 1) ELSE Step(2, 0)

\* the category branches passing three captures whenever the class name
\* follows, whatever comes after it
CategoryStep_blind(labels, i, class_label, category_label) ==
    IF Follows(labels, i, 1, class_label) THEN Step(3, 1) ELSE Step(1, 0)

\* the category branches: the class name one capture on, the category name
\* two captures on
CategoryStep(labels, i, class_label, category_label) ==
    IF Follows(labels, i, 1, class_label)
    THEN IF Follows(labels, i, 2, category_label) THEN Step(3, 1)
         ELSE Step(2, 1)
    ELSE Step(1, 0)

\* an iteration of the while loop of ObjectiveCChunker.chunk_code, lines
\* 101-323
ObjectiveCStep(labels, i) ==
    CASE labels[i] = "class_interface" ->
            IF Follows(labels, i, 1, "class_name") THEN Step(2, 1)
            ELSE Step(1, 0)
      [] labels[i] = "category_interface" ->
            CategoryStep(labels, i, "category_class_name", "category_name")
      [] labels[i] = "protocol" ->
            IF Follows(labels, i, 1, "protocol_name") THEN Step(2, 1)
            ELSE Step(1, 0)
      [] labels[i] = "class_implementation" ->
            IF Follows(labels, i, 1, "impl_class_name") THEN Step(2, 1)
            ELSE Step(1, 0)
      [] labels[i] = "category_implementation" ->
            CategoryStep(labels, i, "category_impl_class_name",
                         "category_impl_name")
      [] labels[i] = "method" -> Step(1, 1)
      [] OTHER -> Step(1, 0)

\* the iteration of the walk of grammar g with the cursor at i
WalkStep(g, labels, i) ==
    CASE g = "java" -> JavaStep(labels, i)
      [] g = "javascript" -> JavaScriptStep(labels, i)
      [] g = "kotlin" -> KotlinStep(labels, i)
      [] g = "python" -> PythonStep(labels, i)
      [] OTHER -> ObjectiveCStep(labels, i)

\* the labels of a query are walked from the first capture
WalkInit ==
    /\ TrackerIdle
    /\ ChunkerIdle
    /\ CycleIdle
    /\ op = "captures"
    /\ grammar \in ExtractorLanguages
    /\ tree = << >>
    /\ extracted = [raise |-> FALSE, chunks |-> << >>]
    /\ identifiers = << >>
    /\ referenced = << >>
    /\ \E n \in 0..MaxCaptures : captured \in [1..n -> CaptureLabels(grammar)]
    /\ steps = << >>
    /\ HookIdle

\* the cursor after the iterations so far
Cursor(done) ==
    IF done = << >> THEN 1
    ELSE done[Len(done)].at + done[Len(done)].advance

\* one iteration of the walk
Iterate ==
    /\ op \in {"captures", "iterate"}
    /\ Cursor(steps) <= Len(captured)
    /\ LET i == Cursor(steps)
           step == WalkStep(grammar, captured, i)
       IN  steps' = Append(steps, [at |-> i, advance |-> step.advance,
                                    emits |-> step.emits])
    /\ op' = "iterate"
    /\ UNCHANGED <<trackerVars, chunkerVars, cycleVars, grammar, tree,
                   extracted, identifiers, referenced, captured, hookVars>>

\* the cursor left the captures: the loop ends
Leave ==
    /\ op \in {"captures", "iterate"}
    /\ Cursor(steps) > Len(captured)
    /\ op' = "walked"
    /\ UNCHANGED <<trackerVars, chunkerVars, cycleVars, extractVars>>

WalkNext == Iterate \/ Leave

SpecWalk == WalkInit /\ [][WalkNext]_vars

\* the loop is sequential code: an iteration that can run does run
SpecWalkFair == SpecWalk /\ WF_vars(WalkNext)

(***************************************************************************)
(* The hook analysis, Compliance/hookAnalysis.py.  A name is the sequence  *)
(* of its characters.  An entry of the hook list is kept as what its       *)
(* second line gives for "method=": the native method, or nothing; the     *)
(* class and hook names, which play no part in the choice of the entries,  *)
(* are left out.                                                            *)
(***************************************************************************)
Chars == {"i", "I", "d"}

\* the names of up to MaxChars characters
Words == UNION {[1..n -> Chars] : n \in 1..MaxChars}

\* str.upper on one character
UpperChar(c) == CASE c = "i" -> "I" [] c = "d" -> "D" [] OTHER -> c

\* str.upper
upper(w) == [k \in DOMAIN w |-> UpperChar(w[k])]

\* the operator "in" of two strings
Contains(w, sub) ==
    \E s \in 0..(Len(w) - Len(sub)) : SubSeq(w, s + 1, s + Len(sub)) = sub

\* the object the module imports under the name Nullable: a class, equal
\* to itself and to no string
Nullable == [class |-> "Nullable", text |-> << >>]

\* a string as a value of the program
Str(w) == [class |-> "str", text |-> w]

\* isKeyWord with "return None" for no match
RECURSIVE isKeyWord_none(_, _)
isKeyWord_none(method, kws) ==
    IF kws = << >> THEN [class |-> "NoneType", text |-> << >>]
    ELSE IF Contains(upper(method), upper(Head(kws))) THEN Str(Head(kws))
         ELSE isKeyWord_none(method, Tail(kws))

\* isKeyWord: the first keyword that is in the method name, both in upper
\* case; Nullable when there is none
RECURSIVE isKeyWord(_, _)
isKeyWord(method, kws) ==
    IF kws = << >> THEN Nullable
    ELSE IF Contains(upper(method), upper(Head(kws))) THEN Str(Head(kws))
         ELSE isKeyWord(method, Tail(kws))

\* the entries: with a method name on the second line, or without
Entries == {None} \cup {Some(w) : w \in Words}

\* the loop of processHookEntries: an entry without "method=" is passed, an
\* entry whose keyword == Nullable is passed, every other entry gives a row
RECURSIVE processHookEntries(_, _)
processHookEntries(list, kws) ==
    IF list = << >> THEN << >>
    ELSE LET entry == Head(list)
             rest == processHookEntries(Tail(list), kws)
         IN  IF entry = None THEN rest
             ELSE LET nativeMethod == entry[1]
                      keyword == isKeyWord(nativeMethod, kws)
                  IN  IF keyword = Nullable THEN rest
                      ELSE <<[keyWord |-> keyword.text,
                              nativeMethod |-> nativeMethod]>> \o rest

\* a hook list and a keyword list are at hand
HookInit ==
    /\ TrackerIdle
    /\ ChunkerIdle
    /\ CycleIdle
    /\ op = "hooks"
    /\ grammar = ""
    /\ tree = << >>
    /\ extracted = [raise |-> FALSE, chunks |-> << >>]
    /\ identifiers = << >>
    /\ referenced = << >>
    /\ captured = << >>
    /\ steps = << >>
    /\ \/ hook_list = << >>
       \/ \E e \in Entries : hook_list = <<e>>
       \/ \E e \in Entries, f \in Entries : hook_list = <<e, f>>
    /\ \/ keywords = << >>
       \/ \E k \in Words : keywords = <<k>>
    /\ results = << >>

ProcessHookEntries ==
    /\ op = "hooks"
    /\ results' = processHookEntries(hook_list, keywords)
    /\ op' = "processHookEntries"
    /\ UNCHANGED <<trackerVars, chunkerVars, cycleVars, grammar, tree,
                   extracted, identifiers, referenced, captured, steps,
                   hook_list, keywords>>

HookNext == ProcessHookEntries

SpecHook == HookInit /\ [][HookNext]_vars

(***************************************************************************)
(* Properties of the extractors.                                           *)
(***************************************************************************)
\* the node type of a class declaration in each grammar
ClassTypes(g) ==
    IF g = "python" THEN {"class_definition"} ELSE {"class_declaration"}

\* the declarations above node i
Ancestors(t, i) == {a \in 1..Len(t) : a # i /\ Within(t, i, a)}

\* the innermost class declaration above node i, 0 when there is none
NearestClass(t, g, i) ==
    LET above == {a \in Ancestors(t, i) : t[a].type \in ClassTypes(g)}
    IN  IF above = {} THEN 0 ELSE Max(above)

MemberTypes == {"method", "constructor"}

\* C11: the parent of a method or constructor chunk is the declared name of
\* the innermost class declaration above its node, and a chunk whose node
\* has no class declaration above it has no parent
C11_ParentResolution ==
    op = "chunk_code" =>
       \A k \in 1..Len(extracted.chunks) :
          LET c == extracted.chunks[k]
              p == NearestClass(tree, grammar, c.node)
          IN  /\ c.chunk_type \in MemberTypes /\ p # 0
                    => c.parent = Some(NameText(p))
              /\ p = 0 => c.parent = None

\* the node types of the type declarations of each grammar
TypeDeclarations(g) ==
    CASE g = "java" -> {"class_declaration", "interface_declaration"}
      [] g = "javascript" -> {"class_declaration", "class"}
      [] g = "kotlin" -> {"class_declaration", "object_declaration"}
      [] g = "python" -> {"class_definition"}
      [] OTHER -> {"class_interface"}

\* C12: a method or constructor chunk whose node lies inside a type
\* declaration has a parent
C12_NestedMemberHasParent ==
    op = "chunk_code" =>
       \A k \in 1..Len(extracted.chunks) :
          LET c == extracted.chunks[k]
          IN  /\ c.chunk_type \in MemberTypes
              /\ \E a \in Ancestors(tree, c.node) :
                    tree[a].type \in TypeDeclarations(grammar)
              => c.parent # None

\* the tree of "class Foo { void bar() {} }": the class n1 and its method n2
FooBar ==
    <<[type |-> "class_declaration", ident |-> "identifier", parent |-> 0],
      [type |-> "method_declaration", ident |-> "identifier", parent |-> 1]>>

\* the records process_file makes of the chunks of the Java file Foo.java
JavaRecords ==
    [k \in 1..Len(extracted.chunks) |->
        ChunkData(CuratedFile("Foo.java"), "Foo.java",
                  [language |-> "java"], k - 1, extracted.chunks[k])]

\* C13: the Java extractor turns the captures class, class_name, method,
\* method_name of a class with one method into the class record without
\* parent and the method record with the class as parent, in this order,
\* and the lines of every Java record are the rows of its node plus 1
C13_ClassWithMethod ==
    op = "chunk_code" /\ grammar = "java" =>
       /\ \A k \in 1..Len(JavaRecords) :
             LET r == JavaRecords[k]
                 rows == _get_node_lines(tree, extracted.chunks[k].node)
             IN  /\ r.start_line = rows[1] + 1
                 /\ r.end_line = rows[2] + 1
                 /\ 1 <= r.start_line /\ r.start_line <= r.end_line
       /\ tree = FooBar =>
             /\ Len(JavaRecords) = 2
             /\ JavaRecords[1].type = "class"
             /\ JavaRecords[1].name = NameText(1)
             /\ JavaRecords[1].parent = None
             /\ JavaRecords[2].type = "method"
             /\ JavaRecords[2].name = NameText(2)
             /\ JavaRecords[2].parent = Some(NameText(1))

\* C13 witness: the Java extractor has run on the class with one method
C13_Witness ==
    /\ op = "chunk_code" /\ grammar = "java" /\ tree = FooBar
    /\ Len(extracted.chunks) = 2
    /\ JavaCaptures(tree)[3].label = "method"

\* C14: the references hold no keyword of the language, no empty text and
\* no text twice, and captures that are all keywords give no reference
C14_KeywordExclusion ==
    op = "extract_references" =>
       /\ \A k \in 1..Len(referenced) :
             /\ referenced[k] \notin Keywords(grammar)
             /\ referenced[k] # ""
       /\ NoDuplicate(referenced)
       /\ (\A k \in 1..Len(identifiers) : identifiers[k] \in Keywords(grammar))
             => referenced = << >>

\* C14 witness: captures with a keyword, an empty text and a name twice
\* gave the name once
C14_Witness ==
    /\ op = "extract_references"
    /\ \E k \in 1..Len(identifiers) : identifiers[k] \in Keywords(grammar)
    /\ \E k \in 1..Len(identifiers) : identifiers[k] = ""
    /\ \E j, k \in 1..Len(identifiers) : j # k /\ identifiers[j] = identifiers[k]
    /\ Len(referenced) = 1

(***************************************************************************)
(* Properties of the incremental cycle.                                    *)
(***************************************************************************)
\* the stages of process_local_repository
Stages == {"curate", "chunk", "vectorize"}

\* C15 as stated: within a cycle the cache file is written by the
\* update_cache at its end only, not before the stages have run
C15_SavedOnlyAtEnd ==
    [][cacheFile' # cacheFile => pc = "update"]_vars

Settled ==
    \A p \in Paths :
        disk[p].exists =>
           /\ CanRead(p)
           /\ \/ Join(RepoPath, p) \in changed_files
              \/ ~IsChanged(Cached, disk[p], p)

\* the step wrote a new document to the cache file
Written == cacheFile' # cacheFile /\ cacheFile'.kind = "json"

\* an incremental cycle whose get_changed_files returns nothing runs no stage
SkipsStages ==
    GcfStep =>
       /\ changed_files' = ChangedFiles(Cached, disk)
       /\ changed_files' = {} =>
             pc' = "idle" /\ UNCHANGED <<curated, store>>

C21_DeletionRunsNoStage ==
    [][GcfStep =>
          /\ \A p \in Paths :
                ~disk[p].exists => Join(RepoPath, p) \notin changed_files'
          /\ (report' # {} /\ changed_files' = {}) =>
                /\ pc' = "idle"
                /\ UNCHANGED chunkerVars
                /\ \A p \in report' :
                      RecordsOf(store', p) = RecordsOf(store, p)]_vars

\* C21 witness: the cycle found the deletion of a file only and returned;
\* the records of the file are in the store
C21_Witness ==
    /\ op = "get_changed_files" /\ pc = "idle"
    /\ changed_files = {}
    /\ \E p \in report : ~disk[p].exists /\ RecordsOf(store, p) # << >>

(***************************************************************************)
(* Properties of the chunk store.                                          *)
(***************************************************************************)
\* C22: an incremental run whose fresh chunk list is empty writes an empty
\* store; one with a processed set keeps every record of a source outside
\* the set, followed by the fresh chunks
C22_EmptyRunDiscards ==
    [][op' = "run_incremental" =>
          /\ processed_files' = {} <=> all_chunks' = << >>
          /\ processed_files' = {} => store'.lines = << >>
          /\ processed_files' # {} =>
                /\ {l \in Range(store.lines) : l.source \notin processed_files'}
                      = {l \in Range(store'.lines) :
                            l.source \notin processed_files'}
                /\ SelectSeq(store'.lines,
                             LAMBDA l : l.source \in processed_files')
                      = all_chunks']_vars

\* C22 witness: an incremental run over a directory with a curated file
\* produced no chunk and left an empty store
C22_Witness ==
    /\ op = "run_incremental"
    /\ \E rel \in Paths : curated[rel].exists
    /\ processed_files = {}
    /\ store.exists /\ store.lines = << >>

\* C23: no two records of the store have the same id, and the records of
\* one source stand in the store with increasing chunk_index
C23_UniqueIds ==
    \A i, j \in 1..Len(store.lines) :
        i < j =>
           /\ store.lines[i].id # store.lines[j].id
           /\ store.lines[i].source = store.lines[j].source =>
                 store.lines[i].chunk_index < store.lines[j].chunk_index

\* C23 witness: after an incremental run the store holds the records of two
\* sources, several of one of them, one of these taken over from an earlier
\* run
C23_Witness ==
    /\ op = "run_incremental"
    /\ \E i, j \in 1..Len(store.lines) :
          /\ i < j
          /\ store.lines[i].source = store.lines[j].source
    /\ \E i \in 1..Len(store.lines) :
          store.lines[i].source \notin processed_files

(***************************************************************************)
(* Properties of the capture walks.                                        *)
(***************************************************************************)
\* the label of the name capture a declaration capture is followed by in
\* its pattern; "" when the pattern captures no name
NameLabel(g, l) ==
    CASE g \in {"java", "javascript", "python"} /\ l = "class" -> "class_name"
      [] g \in {"java", "javascript"} /\ l = "method" -> "method_name"
      [] g = "java" /\ l = "constructor" -> "constructor_name"
      [] g = "javascript" /\ l = "function" -> "function_name"
      [] g = "javascript" /\ l = "arrow_function" -> "param_name"
      [] g = "objc" /\ l = "class_interface" -> "class_name"
      [] g = "objc" /\ l = "category_interface" -> "category_class_name"
      [] g = "objc" /\ l = "protocol" -> "protocol_name"
      [] g = "objc" /\ l = "class_implementation" -> "impl_class_name"
      [] g = "objc" /\ l = "category_implementation" ->
            "category_impl_class_name"
      [] OTHER -> ""

\* the labels of the declaration captures
DeclarationLabels(g) ==
    CASE g = "java" -> {"class", "method", "constructor"}
      [] g = "javascript" -> {"function", "method", "class", "arrow_function"}
      [] g = "kotlin" -> {"class", "function"}
      [] g = "python" -> {"class"}
      [] OTHER ->
            {"class_interface", "category_interface", "protocol",
             "class_implementation", "category_implementation", "method"}

\* the name capture of the declaration capture at i follows it
Named(g, labels, i) ==
    /\ NameLabel(g, labels[i]) # ""
    /\ Follows(labels, i, 1, NameLabel(g, labels[i]))

\* the skip policy on one iteration: a declaration capture without its name
\* capture emits nothing and is passed alone (an arrow function emits one
\* chunk), one with its name capture emits one chunk and is passed with its
\* name
SkipPolicy(g, labels, st) ==
    labels[st.at] \in DeclarationLabels(g) =>
       IF Named(g, labels, st.at)
       THEN st.emits = 1 /\ st.advance >= 2
       ELSE /\ st.advance = 1
            /\ st.emits = IF g = "javascript" /\ labels[st.at] = "arrow_function"
                          THEN 1 ELSE 0

CursorWalks == {"java", "javascript", "objc"}

\* the captures an iteration passes besides the one it reads
PassedOver(st) == (st.at + 1)..(st.at + st.advance - 1)

\* C28: the cursor walks of the Java, JavaScript and Objective-C extractors
\* end on every capture sequence, each iteration moving the cursor on by 1,
\* 2 or 3, and no declaration capture is passed without being read: a
\* capture passed besides the one read is in the sequence and carries a name
\* label
C28_WalkTerminates ==
    /\ [](grammar \in CursorWalks =>
            \A k \in 1..Len(steps) :
               /\ steps[k].advance \in 1..3
               /\ steps[k].at = Cursor(SubSeq(steps, 1, k - 1))
               /\ \A j \in PassedOver(steps[k]) :
                     /\ j <= Len(captured)
                     /\ captured[j] \notin DeclarationLabels(grammar))
    /\ (grammar \in CursorWalks ~> op = "walked")

\* C28 witness: an Objective-C walk ended after an iteration that passed
\* three captures
C28_Witness ==
    /\ op = "walked" /\ grammar = "objc"
    /\ \E k \in 1..Len(steps) :
          steps[k].advance = 3 /\ PassedOver(steps[k]) # {}

(***************************************************************************)
(* Properties of the extractors on the declarations they match.            *)
(***************************************************************************)
\* the captures of the declaration queries of an extractor that returns
QueryCaptures(g, t) ==
    CASE g = "java" -> JavaCaptures(t)
      [] g = "javascript" -> JavaScriptCaptures(t)
      [] g = "kotlin" -> KotlinCaptures(t)
      [] g = "python" ->
            PythonClassCaptures(t) \o PythonFunctionCaptures(t)
               \o PythonMethodCaptures(t)
      [] OTHER -> << >>

\* the declarations a pattern of the extractor matches
Matched(g, t) ==
    {i \in 1..Len(t) :
        \E j \in 1..Len(QueryCaptures(g, t)) :
           QueryCaptures(g, t)[j].node = [id |-> i, part |-> "self"]}

\* the chunks made from node i
ChunksOf(chunks, i) == {k \in 1..Len(chunks) : chunks[k].node = i}

\* C25: an extractor that returns made exactly one chunk from every
\* declaration that one of its patterns matches, wherever the declaration
\* stands in the tree
C25_OneChunkPerDeclaration ==
    (op = "chunk_code" /\ ~extracted.raise) =>
       \A i \in Matched(grammar, tree) :
          Cardinality(ChunksOf(extracted.chunks, i)) = 1

\* C26, the part that fails: chunk_code of each of the five extractors
\* computes the import list and completes without raising on a parsed file
C26_ImportsThenChunks == op = "chunk_code" => ~extracted.raise

\* the category declarations of Objective-C
CategoryTypes == {"category_interface", "category_implementation"}

\* C27: the Objective-C chunk_code returns exactly one chunk for a category
\* interface or implementation that has its class name, of that chunk type
\* and named after the class
C27_CategoryChunk ==
    (op = "chunk_code" /\ grammar = "objc") =>
       \A i \in 1..Len(tree) :
          tree[i].type \in CategoryTypes =>
             /\ Cardinality(ChunksOf(extracted.chunks, i)) = 1
             /\ \A k \in ChunksOf(extracted.chunks, i) :
                   /\ extracted.chunks[k].chunk_type = tree[i].type
                   /\ extracted.chunks[k].name = NameText(i)

\* C29: in the chunks of a Java or JavaScript file, a method or constructor
\* chunk with a parent comes with a class chunk of that name whose lines
\* hold the lines of the member
C29_NoDanglingParent ==
    (op = "chunk_code" /\ grammar \in {"java", "javascript"}) =>
       \A k \in 1..Len(extracted.chunks) :
          LET m == extracted.chunks[k] IN
          (m.chunk_type \in MemberTypes /\ m.parent # None) =>
             \E c \in 1..Len(extracted.chunks) :
                LET cl == extracted.chunks[c] IN
                /\ cl.chunk_type = "class"
                /\ Some(cl.name) = m.parent
                /\ cl.start_line <= m.start_line
                /\ m.end_line <= cl.end_line

\* C29 witness: a JavaScript file gave a method chunk with a parent, the
\* method holding a further declaration
C29_Witness ==
    /\ op = "chunk_code" /\ grammar = "javascript"
    /\ \E k \in 1..Len(extracted.chunks) :
          /\ extracted.chunks[k].chunk_type = "method"
          /\ extracted.chunks[k].parent # None
          /\ extracted.chunks[k].start_line < extracted.chunks[k].end_line

(***************************************************************************)
(* Properties of the hook analysis.                                        *)
(***************************************************************************)
\* the native methods of the entries of the list, in order
RECURSIVE Methods(_)
Methods(list) ==
    IF list = << >> THEN << >>
    ELSE (IF Head(list) = None THEN << >> ELSE <<Head(list)[1]>>)
         \o Methods(Tail(list))

\* a keyword of the list is in the method name, whatever the case
HasKeyword(method, kws) ==
    \E k \in 1..Len(kws) : Contains(upper(method), upper(kws[k]))

====
